---- MODULE Spec2Model ----
(***************************************************************************)
(* A model of the awseventadapter package: the translation of a Lambda     *)
(* event (AdapterRequest) into an http.Request (ToRequest), the            *)
(* synchronous invocation of an http.Handler (Proxy, requestDoneHandler)   *)
(* and the translation of the recorded http.Response into an               *)
(* AdapterResponse (NewAdapterResponse and its two casts).                 *)
(*                                                                         *)
(* Go strings and byte slices are sequences of byte values (0..255); a     *)
(* text literal is written as its ASCII codes with the text in a comment.  *)
(* Go maps are functions with a finite domain; the order in which a range  *)
(* loop visits a map is a nondeterministic choice of a permutation of its  *)
(* keys.                                                                   *)
(***************************************************************************)
EXTENDS Integers, Sequences, FiniteSets, TLC

VARIABLES
    ar,        \* the AdapterRequest the methods are called on
    env,       \* the process environment: the value of GO_API_HOST, or unset
    ret,       \* what the last ToRequest call returned
    sbpRet,    \* what the last StripBasePath call was given and returned
    calls,     \* how many ToRequest / Proxy calls were made on ar
    pc,        \* where the goroutine that runs Proxy is
    ch,        \* the completion channel made by Proxy
    w,         \* the httptest.ResponseRecorder made by Proxy
    hreq,      \* the request the handler was given (nil before)
    ctx,       \* the invocation context: cancelled or not
    proxyRet,  \* what the last Proxy call returned
    resp,      \* the http.Response handed to NewAdapterResponse
    aresp,     \* what NewAdapterResponse returned
    shape      \* the last platform shape cast from aresp

vars == <<ar, env, ret, sbpRet, calls, pc, ch, w, hreq, ctx, proxyRet, resp, aresp, shape>>

(***************************************************************************)
(* Bounds of the model.                                                    *)
(***************************************************************************)
\* ToRequest / Proxy calls made on one AdapterRequest
MaxCalls == 2
\* Write calls a handler makes on the recorder
MaxWrites == 2

(***************************************************************************)
(* Strings.                                                                *)
(***************************************************************************)
\* strings.HasPrefix
HasPrefix(s, p) == Len(p) <= Len(s) /\ SubSeq(s, 1, Len(p)) = p

\* strings.HasSuffix
HasSuffix(s, p) == Len(p) <= Len(s) /\ SubSeq(s, Len(s) - Len(p) + 1, Len(s)) = p

\* strings.Index: the position (from 1) of the first occurrence of old in s, 0 if none
Index(s, old) ==
    LET hits == {i \in 1..(Len(s) - Len(old) + 1) : SubSeq(s, i, i + Len(old) - 1) = old}
    IN  IF hits = {} THEN 0 ELSE CHOOSE i \in hits : \A j \in hits : i <= j

\* strings.Replace(s, old, new, 1) for a non-empty old
ReplaceFirst(s, old, new) ==
    LET i == Index(s, old)
    IN  IF i = 0 THEN s
        ELSE SubSeq(s, 1, i - 1) \o new \o SubSeq(s, i + Len(old), Len(s))

RECURSIVE TrimLeft(_, _)
TrimLeft(s, c) == IF s # <<>> /\ Head(s) = c THEN TrimLeft(Tail(s), c) ELSE s

RECURSIVE TrimRight(_, _)
TrimRight(s, c) ==
    IF s # <<>> /\ s[Len(s)] = c THEN TrimRight(SubSeq(s, 1, Len(s) - 1), c) ELSE s

\* strings.Trim(s, cutset) for a cutset of one character
Trim(s, c) == TrimRight(TrimLeft(s, c), c)

\* strings.ToUpper on ASCII text
ToUpper(s) == [i \in 1..Len(s) |-> IF s[i] \in 97..122 THEN s[i] - 32 ELSE s[i]]

IsAlnum(c) == c \in 48..57 \/ c \in 65..90 \/ c \in 97..122

IsHex(c) == c \in 48..57 \/ c \in 65..70 \/ c \in 97..102

\* "0123456789ABCDEF"[n]
UpperHex(n) == IF n < 10 THEN 48 + n ELSE 55 + n

RECURSIVE Flatten(_)
Flatten(ss) == IF ss = <<>> THEN <<>> ELSE Head(ss) \o Flatten(Tail(ss))

\* url.QueryEscape: letters, digits and - _ . ~ are kept, a space becomes '+',
\* every other byte becomes %XX in upper-case hexadecimal
EscapeByte(c) ==
    IF IsAlnum(c) \/ c \in {45, 95, 46, 126} THEN <<c>>
    ELSE IF c = 32 THEN <<43>>
    ELSE <<37, UpperHex(c \div 16), UpperHex(c % 16)>>

QueryEscape(s) == Flatten([i \in 1..Len(s) |-> EscapeByte(s[i])])

\* The orders in which a range loop may visit the keys of map m
Orders(m) ==
    LET n == Cardinality(DOMAIN m)
    IN  {o \in [1..n -> DOMAIN m] : \A i, j \in 1..n : o[i] = o[j] => i = j}

EmptyMap == [k \in {} |-> <<>>]

\* A Go pointer or error value: nil, or the one value it refers to
Nil == <<>>

Some(x) == <<x>>

(***************************************************************************)
(* encoding/base64, StdEncoding.                                           *)
(***************************************************************************)
\* The value of an alphabet character, -1 for any other byte
B64Val(c) ==
    IF c \in 65..90 THEN c - 65
    ELSE IF c \in 97..122 THEN c - 71
    ELSE IF c \in 48..57 THEN c + 4
    ELSE IF c = 43 THEN 62
    ELSE IF c = 47 THEN 63
    ELSE -1

\* The alphabet character of a 6-bit value
B64Char(v) ==
    IF v < 26 THEN 65 + v
    ELSE IF v < 52 THEN 71 + v
    ELSE IF v < 62 THEN v - 4
    ELSE IF v = 62 THEN 43
    ELSE 47

RECURSIVE B64Encode(_)
\* base64.StdEncoding.EncodeToString
B64Encode(b) ==
    IF b = <<>> THEN <<>>
    ELSE IF Len(b) = 1 THEN
        <<B64Char(b[1] \div 4), B64Char((b[1] % 4) * 16), 61, 61>>
    ELSE IF Len(b) = 2 THEN
        <<B64Char(b[1] \div 4), B64Char((b[1] % 4) * 16 + b[2] \div 16),
          B64Char((b[2] % 16) * 4), 61>>
    ELSE
        <<B64Char(b[1] \div 4), B64Char((b[1] % 4) * 16 + b[2] \div 16),
          B64Char((b[2] % 16) * 4 + b[3] \div 64), B64Char(b[3] % 64)>>
        \o B64Encode(SubSeq(b, 4, Len(b)))

RECURSIVE B64DecodeQuanta(_)
\* The decoding of the quanta of four characters; padding only ends the input
B64DecodeQuanta(s) ==
    IF s = <<>> THEN [ok |-> TRUE, bytes |-> <<>>]
    ELSE IF Len(s) < 4 THEN [ok |-> FALSE, bytes |-> <<>>]
    ELSE
        LET v1 == B64Val(s[1])
            v2 == B64Val(s[2])
            v3 == B64Val(s[3])
            v4 == B64Val(s[4])
            rest == SubSeq(s, 5, Len(s))
        IN  IF v1 < 0 \/ v2 < 0 THEN [ok |-> FALSE, bytes |-> <<>>]
            ELSE IF s[3] = 61 THEN
                IF s[4] = 61 /\ rest = <<>>
                THEN [ok |-> TRUE, bytes |-> <<v1 * 4 + v2 \div 16>>]
                ELSE [ok |-> FALSE, bytes |-> <<>>]
            ELSE IF v3 < 0 THEN [ok |-> FALSE, bytes |-> <<>>]
            ELSE IF s[4] = 61 THEN
                IF rest = <<>>
                THEN [ok |-> TRUE,
                      bytes |-> <<v1 * 4 + v2 \div 16, (v2 % 16) * 16 + v3 \div 4>>]
                ELSE [ok |-> FALSE, bytes |-> <<>>]
            ELSE IF v4 < 0 THEN [ok |-> FALSE, bytes |-> <<>>]
            ELSE
                LET r == B64DecodeQuanta(rest)
                IN  IF r.ok
                    THEN [ok |-> TRUE,
                          bytes |-> <<v1 * 4 + v2 \div 16, (v2 % 16) * 16 + v3 \div 4,
                                      (v3 % 4) * 64 + v4>> \o r.bytes]
                    ELSE r

IsNotNewline(c) == c \notin {10, 13}

\* base64.StdEncoding.DecodeString: carriage returns and line feeds are skipped
B64Decode(s) == B64DecodeQuanta(SelectSeq(s, IsNotNewline))

(***************************************************************************)
(* unicode/utf8.                                                           *)
(***************************************************************************)
IsCont(c) == c \in 128..191

RECURSIVE Utf8Valid(_)
\* utf8.Valid
Utf8Valid(b) ==
    IF b = <<>> THEN TRUE
    ELSE
        LET c == b[1]
            n == Len(b)
        IN  IF c < 128 THEN Utf8Valid(Tail(b))
            ELSE IF c \in 194..223 THEN
                n >= 2 /\ IsCont(b[2]) /\ Utf8Valid(SubSeq(b, 3, n))
            ELSE IF c \in 224..239 THEN
                /\ n >= 3
                /\ b[2] \in (IF c = 224 THEN 160..191 ELSE IF c = 237 THEN 128..159 ELSE 128..191)
                /\ IsCont(b[3])
                /\ Utf8Valid(SubSeq(b, 4, n))
            ELSE IF c \in 240..244 THEN
                /\ n >= 4
                /\ b[2] \in (IF c = 240 THEN 144..191 ELSE IF c = 244 THEN 128..143 ELSE 128..191)
                /\ IsCont(b[3])
                /\ IsCont(b[4])
                /\ Utf8Valid(SubSeq(b, 5, n))
            ELSE FALSE

(***************************************************************************)
(* The http.Request built by net/http.                                     *)
(***************************************************************************)
\* httpguts.IsTokenRune on ASCII
IsTokenChar(c) ==
    IsAlnum(c) \/ c \in {33, 35, 36, 37, 38, 39, 42, 43, 45, 46, 94, 95, 96, 124, 126}

\* net/http validMethod
ValidMethod(m) == m # <<>> /\ \A i \in 1..Len(m) : IsTokenChar(m[i])

\* The raw URL without its fragment (cut at the first '#')
CutFragment(u) == IF Index(u, <<35>>) = 0 THEN u ELSE SubSeq(u, 1, Index(u, <<35>>) - 1)

\* url.URL.RawQuery: what follows the first '?' of the fragment-less URL
RawQuery(u) ==
    LET r == CutFragment(u)
        q == Index(r, <<63>>)
    IN  IF q = 0 THEN <<>> ELSE SubSeq(r, q + 1, Len(r))

\* The path part of the raw URL: what precedes the first '?'
RawPath(u) ==
    LET r == CutFragment(u)
        q == Index(r, <<63>>)
    IN  IF q = 0 THEN r ELSE SubSeq(r, 1, q - 1)

\* url.unescape's validation: every '%' is followed by two hexadecimal digits
ValidEscapes(s) ==
    \A i \in 1..Len(s) :
        s[i] = 37 => i + 2 <= Len(s) /\ IsHex(s[i + 1]) /\ IsHex(s[i + 2])

\* url.Parse succeeds on a host-less raw URL: no ASCII control byte, valid
\* escapes in the path, and no colon in a first segment that has no leading '/'
ValidURL(u) ==
    LET p == RawPath(u)
        slash == Index(p, <<47>>)
        seg == IF slash = 0 THEN p ELSE SubSeq(p, 1, slash - 1)
    IN  /\ \A i \in 1..Len(u) : u[i] >= 32 /\ u[i] # 127
        /\ ValidEscapes(p)
        /\ (HasPrefix(p, <<47>>) \/ Index(seg, <<58>>) = 0)

NoRequest ==
    [kind |-> "none", Method |-> <<>>, URL |-> <<>>, Header |-> EmptyMap, Body |-> <<>>,
     Ctx |-> "background"]

ErrRequest == [NoRequest EXCEPT !.kind = "error"]

\* http.NewRequest(method, url, body): an empty method means GET
NewRequest(method, url, body) ==
    LET m == IF method = <<>> THEN <<71, 69, 84>> ELSE method
    IN  IF ValidMethod(m) /\ ValidURL(url)
        THEN [kind |-> "request", Method |-> m, URL |-> url, Header |-> EmptyMap,
              Body |-> body, Ctx |-> "background"]
        ELSE ErrRequest

\* textproto.CanonicalMIMEHeaderKey on a key of token characters: upper case
\* at the start and after each '-', lower case elsewhere
CanonicalKey(k) ==
    IF \E i \in 1..Len(k) : ~IsTokenChar(k[i]) THEN k
    ELSE [i \in 1..Len(k) |->
            IF i = 1 \/ k[i - 1] = 45
            THEN (IF k[i] \in 97..122 THEN k[i] - 32 ELSE k[i])
            ELSE (IF k[i] \in 65..90 THEN k[i] + 32 ELSE k[i])]

RECURSIVE AddHeaders(_, _, _)
\* for h := range ar.Headers { httpRequest.Header.Add(h, ar.Headers[h]) }
AddHeaders(hdr, m, ord) ==
    IF ord = <<>> THEN hdr
    ELSE
        LET k == CanonicalKey(Head(ord))
            old == IF k \in DOMAIN hdr THEN hdr[k] ELSE <<>>
        IN  AddHeaders([x \in DOMAIN hdr \cup {k} |->
                            IF x = k THEN Append(old, m[Head(ord)]) ELSE hdr[x]],
                       m, Tail(ord))

(***************************************************************************)
(* AdapterRequest.ToRequest.                                               *)
(***************************************************************************)
\* "https://aws-serverless-go-api.com"
DefaultServerAddress ==
    <<104, 116, 116, 112, 115, 58, 47, 47, 97, 119, 115, 45, 115, 101, 114, 118, 101, 114,
      108, 101, 115, 115, 45, 103, 111, 45, 97, 112, 105, 46, 99, 111, 109>>

\* decodedBody taken from the body text whatever the flag says
DecodedBodyRaw(a) == [ok |-> TRUE, bytes |-> a.Body]

\* decodedBody: the body's bytes, base64-decoded when the event says so
DecodedBody(a) ==
    IF a.IsBase64Encoded THEN B64Decode(a.Body) ELSE [ok |-> TRUE, bytes |-> a.Body]

\* The local path: the base path stripped once when the path starts with it,
\* and a leading '/' ensured
ResolvedPath(a) ==
    LET p == IF /\ a.stripBasePath # <<>>
                /\ Len(a.stripBasePath) > 1
                /\ HasPrefix(a.Path, a.stripBasePath)
             THEN ReplaceFirst(a.Path, a.stripBasePath, <<>>)
             ELSE a.Path
    IN  IF ~HasPrefix(p, <<47>>) THEN <<47>> \o p ELSE p

\* serverAddress: GO_API_HOST when the variable is set, the default otherwise
ServerAddress(e) == IF e.set THEN e.value ELSE DefaultServerAddress

\* The value the local path holds after line 166; no later statement reads it
LocalPath(a, e) == ServerAddress(e) \o ResolvedPath(a)

\* One step of either query loop: '&' before every pair but the first
AppendPair(queryString, q, v) ==
    (IF queryString # <<>> THEN queryString \o <<38>> ELSE queryString)
    \o QueryEscape(q) \o <<61>> \o QueryEscape(v)

RECURSIVE AppendValues(_, _, _)
\* The inner loop over the values of one key
AppendValues(queryString, q, l) ==
    IF l = <<>> THEN queryString
    ELSE AppendValues(AppendPair(queryString, q, Head(l)), q, Tail(l))

RECURSIVE MultiQueryString(_, _, _)
\* The loop over MultiValueQueryStringParameters, its keys visited in order ord
MultiQueryString(queryString, m, ord) ==
    IF ord = <<>> THEN queryString
    ELSE MultiQueryString(AppendValues(queryString, Head(ord), m[Head(ord)]), m, Tail(ord))

RECURSIVE SingleQueryString(_, _, _)
\* The loop over QueryStringParameters, its keys visited in order ord
SingleQueryString(queryString, m, ord) ==
    IF ord = <<>> THEN queryString
    ELSE SingleQueryString(AppendPair(queryString, Head(ord), m[Head(ord)]), m, Tail(ord))

\* The value of ar.Path after the query block: the query is appended to the
\* receiver's own Path field
PathWithQuery(a, ordM, ordS) ==
    IF Cardinality(DOMAIN a.MultiValueQueryStringParameters) > 0
    THEN a.Path \o <<63>> \o MultiQueryString(<<>>, a.MultiValueQueryStringParameters, ordM)
    ELSE IF Cardinality(DOMAIN a.QueryStringParameters) > 0
    THEN a.Path \o <<63>> \o SingleQueryString(<<>>, a.QueryStringParameters, ordS)
    ELSE a.Path

\* The URL handed to http.NewRequest: the receiver's Path field
RequestTarget(a, e) == a.Path

\* ToRequest on receiver a: the receiver afterwards and the returned request
ToRequest(a, e, ordM, ordS, ordH) ==
    LET body == DecodedBody(a)
    IN  IF ~body.ok THEN [ar |-> a, ret |-> ErrRequest]
        ELSE
            LET a2 == [a EXCEPT !.Path = PathWithQuery(a, ordM, ordS)]
                r == NewRequest(ToUpper(a.HTTPMethod), RequestTarget(a2, e), body.bytes)
            IN  IF r.kind = "error" THEN [ar |-> a2, ret |-> r]
                ELSE [ar |-> a2,
                      ret |-> [r EXCEPT !.Header = AddHeaders(EmptyMap, a.Headers, ordH)]]

\* StripBasePath without the leading '/' it ensures
StripBasePathNoSlash(basePath) ==
    IF Trim(basePath, 32) = <<>> THEN <<>>
    ELSE IF HasSuffix(basePath, <<47>>) THEN SubSeq(basePath, 1, Len(basePath) - 1)
    ELSE basePath

\* AdapterRequest.StripBasePath: the value stored and returned
StripBasePath(basePath) ==
    IF Trim(basePath, 32) = <<>> THEN <<>>
    ELSE
        LET p == IF ~HasPrefix(basePath, <<47>>) THEN <<47>> \o basePath ELSE basePath
        IN  IF HasSuffix(p, <<47>>) THEN SubSeq(p, 1, Len(p) - 1) ELSE p

(***************************************************************************)
(* NewAdapterResponse and the two platform shapes.                         *)
(***************************************************************************)
\* "Content-Type"
ContentType == <<67, 111, 110, 116, 101, 110, 116, 45, 84, 121, 112, 101>>

\* The encoding decision taken from a declared text/... content type
IsTextByHeader(r) ==
    /\ ContentType \in DOMAIN r.Header
    /\ r.Header[ContentType] # <<>>
    /\ HasPrefix(r.Header[ContentType][1], <<116, 101, 120, 116, 47>>)

\* utf8.Valid(rb): the encoding decision, taken from the bytes read
IsText(r) == Utf8Valid(r.Body)

\* NewAdapterResponse with the single-value headers filled from the first
\* value of every header
NewAdapterResponseFirstValues(r) ==
    IF r.readFails THEN [resp |-> Nil, err |-> Some("Unable to read response body")]
    ELSE [resp |-> Some([StatusCode |-> r.StatusCode,
                         StatusDescription |-> <<>>,
                         Headers |-> [k \in DOMAIN r.Header |-> r.Header[k][1]],
                         MultiValueHeaders |-> r.Header,
                         Body |-> IF IsText(r) THEN r.Body ELSE B64Encode(r.Body),
                         IsBase64Encoded |-> ~IsText(r)]),
          err |-> Nil]

\* NewAdapterResponse(r): the pair (response, error) it returns
NewAdapterResponse(r) ==
    IF r.readFails THEN [resp |-> Nil, err |-> Some("Unable to read response body")]
    ELSE [resp |-> Some([StatusCode |-> r.StatusCode,
                         StatusDescription |-> <<>>,
                         Headers |-> EmptyMap,
                         MultiValueHeaders |-> r.Header,
                         Body |-> IF IsText(r) THEN r.Body ELSE B64Encode(r.Body),
                         IsBase64Encoded |-> ~IsText(r)]),
          err |-> Nil]

\* AdapterResponse.APIGatewayProxyResponse
APIGatewayProxyResponse(a) ==
    [StatusCode |-> a.StatusCode,
     Headers |-> EmptyMap,
     MultiValueHeaders |-> a.MultiValueHeaders,
     Body |-> a.Body,
     IsBase64Encoded |-> a.IsBase64Encoded]

\* AdapterResponse.ALBTargetGroupResponse: the conversion of *ar
ALBTargetGroupResponse(a) ==
    [StatusCode |-> a.StatusCode,
     StatusDescription |-> a.StatusDescription,
     Headers |-> a.Headers,
     MultiValueHeaders |-> a.MultiValueHeaders,
     Body |-> a.Body,
     IsBase64Encoded |-> a.IsBase64Encoded]

(***************************************************************************)
(* The httptest.ResponseRecorder Proxy hands to the handler.               *)
(***************************************************************************)
\* "text/plain; charset=utf-8"
TextPlainUtf8 ==
    <<116, 101, 120, 116, 47, 112, 108, 97, 105, 110, 59, 32, 99, 104, 97, 114, 115, 101,
      116, 61, 117, 116, 102, 45, 56>>

\* "application/octet-stream"
OctetStream ==
    <<97, 112, 112, 108, 105, 99, 97, 116, 105, 111, 110, 47, 111, 99, 116, 101, 116, 45,
      115, 116, 114, 101, 97, 109>>

\* http.DetectContentType on data that matches no media signature: text
\* unless it holds a binary control byte
DetectContentType(b) ==
    IF \E i \in 1..Len(b) : b[i] <= 8 \/ b[i] = 11 \/ b[i] \in 14..26 \/ b[i] \in 28..31
    THEN OctetStream
    ELSE TextPlainUtf8

\* httptest.NewRecorder()
NewRecorder ==
    [made |-> TRUE, Code |-> 200, HeaderMap |-> EmptyMap, snapHeader |-> EmptyMap,
     wroteHeader |-> FALSE, Body |-> <<>>, writes |-> 0, read |-> FALSE]

\* ResponseRecorder.Header().Set(k, v)
RecorderSetHeader(rw, k, v) ==
    [rw EXCEPT !.HeaderMap = [x \in DOMAIN rw.HeaderMap \cup {k} |->
                                IF x = k THEN <<v>> ELSE rw.HeaderMap[x]]]

\* ResponseRecorder.WriteHeader(code): the first call fixes code and headers
RecorderWriteHeader(rw, code) ==
    IF rw.wroteHeader THEN rw
    ELSE [rw EXCEPT !.snapHeader = rw.HeaderMap, !.Code = code, !.wroteHeader = TRUE]

\* ResponseRecorder.Write(b): an implicit WriteHeader(200) with a detected
\* Content-Type when none is set, then the bytes appended to the buffer
RecorderWrite(rw, b) ==
    LET typed == IF rw.wroteHeader \/ ContentType \in DOMAIN rw.HeaderMap THEN rw
                 ELSE RecorderSetHeader(rw, ContentType, DetectContentType(b))
        r == RecorderWriteHeader(typed, 200)
    IN  [r EXCEPT !.Body = @ \o b, !.writes = @ + 1]

\* ResponseRecorder.Flush()
RecorderFlush(rw) == RecorderWriteHeader(rw, 200)

\* ResponseRecorder.Result(): the http.Response of what was recorded
RecorderResult(rw) ==
    [StatusCode |-> rw.Code,
     Header |-> IF rw.wroteHeader THEN rw.snapHeader ELSE rw.HeaderMap,
     Body |-> rw.Body,
     readFails |-> FALSE]

(***************************************************************************)
(* requestDoneHandler and AdapterRequest.Proxy.                            *)
(***************************************************************************)
\* make(chan struct{})
MakeChan == [made |-> TRUE, closed |-> FALSE, closes |-> 0, received |-> 0]

\* close(ch)
CloseChan(c) == [c EXCEPT !.closed = TRUE, !.closes = @ + 1]

\* A wrapper that leaves the channel as it is
KeepChan(c) == c

\* A wrapper that closes the channel before it calls the handler
CloseOnEntry(c) == [c EXCEPT !.closed = TRUE, !.closes = @ + 1]

\* The wrapper on entry: defer close(ch) only registers the close
WrapperEnter(c) == c

\* The wrapper on exit, by return or by panic of h.ServeHTTP: the deferred
\* close(ch) runs
WrapperExit(c) == CloseChan(c)

\* <-ch can proceed: a closed channel yields its zero value
CanReceive(c) == c.closed

\* A Proxy that goes on whatever ToRequest returned
ProceedsAlways(r) == TRUE

\* if err != nil { return nil, ... }: Proxy goes on only with a request
Proceeds(r) == r.kind = "request"

\* httpRequest.WithContext(ctx)
WithContext(r) == [r EXCEPT !.Ctx = "invocation"]

\* The (response, error) pair Proxy returns when ToRequest failed
ProxyToRequestError ==
    [resp |-> Nil, err |-> Some("Unable to convert AdapterRequest to http.Request")]

\* Lines 130 to 138: Flush, Result and NewAdapterResponse on the recorder
ProxyResult(rw) ==
    LET r == NewAdapterResponse(RecorderResult(RecorderFlush(rw)))
    IN  IF r.err # Nil
        THEN [resp |-> Nil, err |-> Some("Unable to convert http.Response into AdapterResponse")]
        ELSE r

(***************************************************************************)
(* Inputs: the events, environments and arguments the calls are made with. *)
(***************************************************************************)
\* "/api/hello", "/base/api", "/base/base/x", "base/x", "/bad%zz"
Paths ==
    { <<47, 97, 112, 105, 47, 104, 101, 108, 108, 111>>,
      <<47, 98, 97, 115, 101, 47, 97, 112, 105>>,
      <<47, 98, 97, 115, 101, 47, 98, 97, 115, 101, 47, 120>>,
      <<98, 97, 115, 101, 47, 120>>,
      <<47, 98, 97, 100, 37, 122, 122>> }

\* "get", "g t"
Methods == { <<103, 101, 116>>, <<103, 32, 116>> }

\* {}, {"x-a": "1"}
HeaderMaps == { EmptyMap, (<<120, 45, 97>> :> <<49>>) }

\* {}, {"a": "1"}, {"a b": "x&y", "c": "2"}
QueryMaps ==
    { EmptyMap,
      (<<97>> :> <<49>>),
      (<<97, 32, 98>> :> <<120, 38, 121>>) @@ (<<99>> :> <<50>>) }

\* {}, {"a": ["1", "2"]}, {"a": ["1"], "b": ["x y"]}, {"a": []}
MultiQueryMaps ==
    { EmptyMap,
      (<<97>> :> << <<49>>, <<50>> >>),
      (<<97>> :> << <<49>> >>) @@ (<<98>> :> << <<120, 32, 121>> >>),
      (<<97>> :> <<>>) }

\* "", "hi", "aGk=" (hi), "aGk" (no padding), "/+8=" (the bytes ff ef),
\* "aG\nk=" (hi, with a line feed)
Bodies ==
    { <<>>,
      <<104, 105>>,
      <<97, 71, 107, 61>>,
      <<97, 71, 107>>,
      <<47, 43, 56, 61>>,
      <<97, 71, 10, 107, 61>> }

\* GO_API_HOST unset, or set to "https://example.com"
Envs ==
    { [set |-> FALSE, value |-> <<>>],
      [set |-> TRUE,
       value |-> <<104, 116, 116, 112, 115, 58, 47, 47, 101, 120, 97, 109, 112, 108, 101,
                   46, 99, 111, 109>>] }

\* "", " ", "/", "//", "base", "/base", "/base/", "base//"
BasePaths ==
    { <<>>, <<32>>, <<47>>, <<47, 47>>,
      <<98, 97, 115, 101>>,
      <<47, 98, 97, 115, 101>>,
      <<47, 98, 97, 115, 101, 47>>,
      <<98, 97, 115, 101, 47, 47>> }

\* An AdapterRequest as json.Unmarshal leaves it: stripBasePath is unexported
Event(path, method, headers, query, multiQuery, body, isBase64) ==
    [ Resource |-> <<>>,
      Path |-> path,
      HTTPMethod |-> method,
      Headers |-> headers,
      MultiValueHeaders |-> EmptyMap,
      QueryStringParameters |-> query,
      MultiValueQueryStringParameters |-> multiQuery,
      PathParameters |-> EmptyMap,
      StageVariables |-> EmptyMap,
      RequestContext |-> "nil",
      Body |-> body,
      IsBase64Encoded |-> isBase64,
      stripBasePath |-> <<>> ]

Events ==
    { Event(p, m, h, q, mq, b, f) :
        p \in Paths, m \in Methods, h \in HeaderMaps, q \in QueryMaps,
        mq \in MultiQueryMaps, b \in Bodies, f \in BOOLEAN }

(***************************************************************************)
(* The states before any call.                                             *)
(***************************************************************************)
NoChannel == [made |-> FALSE, closed |-> FALSE, closes |-> 0, received |-> 0]

NoRecorder ==
    [made |-> FALSE, Code |-> 200, HeaderMap |-> EmptyMap, snapHeader |-> EmptyMap,
     wroteHeader |-> FALSE, Body |-> <<>>, writes |-> 0, read |-> FALSE]

NoResult == [kind |-> "none"]

NoResponse == [StatusCode |-> 0, Header |-> EmptyMap, Body |-> <<>>, readFails |-> FALSE]

NoProxy ==
    /\ pc = "idle"
    /\ ch = NoChannel
    /\ w = NoRecorder
    /\ hreq = NoRequest
    /\ ctx = [cancelled |-> FALSE]
    /\ proxyRet = NoResult

NoTranslation ==
    /\ resp = NoResponse
    /\ aresp = NoResult
    /\ shape = NoResult

Init ==
    /\ ar \in Events
    /\ env \in Envs
    /\ ret = NoRequest
    /\ sbpRet = [arg |-> <<>>, value |-> <<>>]
    /\ calls = 0
    /\ NoProxy
    /\ NoTranslation

(***************************************************************************)
(* The calls on an AdapterRequest.                                         *)
(***************************************************************************)
ToRequestCall ==
    /\ pc = "idle"
    /\ calls < MaxCalls
    /\ \E ordM \in Orders(ar.MultiValueQueryStringParameters),
          ordS \in Orders(ar.QueryStringParameters),
          ordH \in Orders(ar.Headers) :
            LET out == ToRequest(ar, env, ordM, ordS, ordH)
            IN  ar' = out.ar /\ ret' = out.ret
    /\ calls' = calls + 1
    /\ UNCHANGED <<env, sbpRet, pc, ch, w, hreq, ctx, proxyRet, resp, aresp, shape>>

StripBasePathCall ==
    /\ pc = "idle"
    /\ \E basePath \in BasePaths :
            /\ ar' = [ar EXCEPT !.stripBasePath = StripBasePath(basePath)]
            /\ sbpRet' = [arg |-> basePath, value |-> StripBasePath(basePath)]
    /\ UNCHANGED <<env, ret, calls, pc, ch, w, hreq, ctx, proxyRet, resp, aresp, shape>>

Next == ToRequestCall \/ StripBasePathCall

Spec == Init /\ [][Next]_vars

(***************************************************************************)
(* The response translator on its own: NewAdapterResponse applied to an    *)
(* http.Response, and the casts of its result.                             *)
(***************************************************************************)
\* The longest response body drawn from BodyBytes
MaxBodyLen == 3

\* 'H', the two bytes of U+00E9, the three bytes of U+20AC, and ff
BodyBytes == {72, 195, 169, 226, 130, 172, 255}

\* "Hello World!"
HelloWorld == <<72, 101, 108, 108, 111, 32, 87, 111, 114, 108, 100, 33>>

ResponseBodies ==
    {HelloWorld} \cup UNION { [1..n -> BodyBytes] : n \in 0..MaxBodyLen }

\* no header; Content-Type: image/png; Content-Type: text/plain and X-A: 1, 2
ResponseHeaders ==
    { EmptyMap,
      (ContentType :> << <<105, 109, 97, 103, 101, 47, 112, 110, 103>> >>),
      (ContentType :> << <<116, 101, 120, 116, 47, 112, 108, 97, 105, 110>> >>)
        @@ (<<88, 45, 65>> :> << <<49>>, <<50>> >>) }

Responses ==
    [StatusCode : {200, 404}, Header : ResponseHeaders, Body : ResponseBodies,
     readFails : BOOLEAN]

ResponseInit ==
    /\ ar = Event(<<47>>, <<103, 101, 116>>, EmptyMap, EmptyMap, EmptyMap, <<>>, FALSE)
    /\ env = [set |-> FALSE, value |-> <<>>]
    /\ ret = NoRequest
    /\ sbpRet = [arg |-> <<>>, value |-> <<>>]
    /\ calls = 0
    /\ NoProxy
    /\ resp \in Responses
    /\ aresp = NoResult
    /\ shape = NoResult

NewAdapterResponseCall ==
    /\ aresp' = [kind |-> "returned"] @@ NewAdapterResponse(resp)
    /\ shape' = NoResult
    /\ UNCHANGED <<ar, env, ret, sbpRet, calls, pc, ch, w, hreq, ctx, proxyRet, resp>>

APIGatewayProxyResponseCall ==
    /\ aresp.kind = "returned"
    /\ aresp.err = Nil
    /\ shape' = [kind |-> "apigw", value |-> APIGatewayProxyResponse(aresp.resp[1])]
    /\ UNCHANGED <<ar, env, ret, sbpRet, calls, pc, ch, w, hreq, ctx, proxyRet, resp, aresp>>

ALBTargetGroupResponseCall ==
    /\ aresp.kind = "returned"
    /\ aresp.err = Nil
    /\ shape' = [kind |-> "alb", value |-> ALBTargetGroupResponse(aresp.resp[1])]
    /\ UNCHANGED <<ar, env, ret, sbpRet, calls, pc, ch, w, hreq, ctx, proxyRet, resp, aresp>>

ResponseNext ==
    NewAdapterResponseCall \/ APIGatewayProxyResponseCall \/ ALBTargetGroupResponseCall

ResponseSpec == ResponseInit /\ [][ResponseNext]_vars

(***************************************************************************)
(* Proxy: one goroutine runs Proxy, the wrapper and the handler in turn.   *)
(* pc is "idle" outside a call, "serving" inside h.ServeHTTP, "returning"  *)
(* or "panicking" once h.ServeHTTP has returned or panicked and the        *)
(* deferred close is due, "waiting" at <-ch, "reading" after it, and       *)
(* "panicked" when a handler's panic has unwound Proxy.                    *)
(***************************************************************************)
\* "/api/hello" plain; "/p" with a header, a query and the body "aGk=";
\* "/p" with the invalid base64 body "aGk"; "/bad%zz"
ProxyEvents ==
    { Event(<<47, 97, 112, 105, 47, 104, 101, 108, 108, 111>>, <<103, 101, 116>>,
            EmptyMap, EmptyMap, EmptyMap, <<>>, FALSE),
      Event(<<47, 112>>, <<103, 101, 116>>, (<<120, 45, 97>> :> <<49>>),
            (<<97>> :> <<49>>), EmptyMap, <<97, 71, 107, 61>>, TRUE),
      Event(<<47, 112>>, <<103, 101, 116>>, EmptyMap, EmptyMap, EmptyMap,
            <<97, 71, 107>>, TRUE),
      Event(<<47, 98, 97, 100, 37, 122, 122>>, <<103, 101, 116>>, EmptyMap, EmptyMap,
            EmptyMap, <<>>, FALSE) }

\* Content-Type: image/png, X-A: 1
HandlerHeaders ==
    { <<ContentType, <<105, 109, 97, 103, 101, 47, 112, 110, 103>> >>,
      << <<88, 45, 65>>, <<49>> >> }

HandlerCodes == {200, 404}

\* "Hello World!", ff ef
HandlerChunks == { HelloWorld, <<255, 239>> }

ProxyInit ==
    /\ ar \in ProxyEvents
    /\ env = [set |-> FALSE, value |-> <<>>]
    /\ ret = NoRequest
    /\ sbpRet = [arg |-> <<>>, value |-> <<>>]
    /\ calls = 0
    /\ NoProxy
    /\ NoTranslation

\* Proxy up to the call of the wrapped handler (lines 119 to 128)
ProxyCall ==
    /\ pc = "idle"
    /\ calls < MaxCalls
    /\ calls' = calls + 1
    /\ \E ordM \in Orders(ar.MultiValueQueryStringParameters),
          ordS \in Orders(ar.QueryStringParameters),
          ordH \in Orders(ar.Headers) :
            LET out == ToRequest(ar, env, ordM, ordS, ordH)
            IN  /\ ar' = out.ar
                /\ ret' = out.ret
                /\ IF Proceeds(out.ret)
                   THEN /\ hreq' = WithContext(out.ret)
                        /\ ch' = WrapperEnter(MakeChan)
                        /\ w' = NewRecorder
                        /\ proxyRet' = NoResult
                        /\ pc' = "serving"
                   ELSE /\ hreq' = NoRequest
                        /\ ch' = NoChannel
                        /\ w' = NoRecorder
                        /\ proxyRet' = [kind |-> "returned"] @@ ProxyToRequestError
                        /\ pc' = "idle"
    /\ UNCHANGED <<env, sbpRet, ctx, resp, aresp, shape>>

\* The handler sets a response header
HandlerSetHeader ==
    /\ pc = "serving"
    /\ \E h \in HandlerHeaders : w' = RecorderSetHeader(w, h[1], h[2])
    /\ UNCHANGED <<ar, env, ret, sbpRet, calls, pc, ch, hreq, ctx, proxyRet, resp, aresp, shape>>

\* The handler writes the status line
HandlerWriteHeader ==
    /\ pc = "serving"
    /\ ~w.wroteHeader
    /\ \E code \in HandlerCodes : w' = RecorderWriteHeader(w, code)
    /\ UNCHANGED <<ar, env, ret, sbpRet, calls, pc, ch, hreq, ctx, proxyRet, resp, aresp, shape>>

\* The handler writes body bytes
HandlerWrite ==
    /\ pc = "serving"
    /\ w.writes < MaxWrites
    /\ \E b \in HandlerChunks : w' = RecorderWrite(w, b)
    /\ UNCHANGED <<ar, env, ret, sbpRet, calls, pc, ch, hreq, ctx, proxyRet, resp, aresp, shape>>

\* h.ServeHTTP returns
HandlerReturn ==
    /\ pc = "serving"
    /\ pc' = "returning"
    /\ UNCHANGED <<ar, env, ret, sbpRet, calls, ch, w, hreq, ctx, proxyRet, resp, aresp, shape>>

\* h.ServeHTTP panics
HandlerPanic ==
    /\ pc = "serving"
    /\ pc' = "panicking"
    /\ UNCHANGED <<ar, env, ret, sbpRet, calls, ch, w, hreq, ctx, proxyRet, resp, aresp, shape>>

\* The wrapper's deferred close runs; a panic then unwinds Proxy
WrapperDone ==
    /\ pc \in {"returning", "panicking"}
    /\ ch' = WrapperExit(ch)
    /\ pc' = IF pc = "returning" THEN "waiting" ELSE "panicked"
    /\ UNCHANGED <<ar, env, ret, sbpRet, calls, w, hreq, ctx, proxyRet, resp, aresp, shape>>

\* <-ch
ProxyReceive ==
    /\ pc = "waiting"
    /\ CanReceive(ch)
    /\ ch' = [ch EXCEPT !.received = @ + 1]
    /\ pc' = "reading"
    /\ UNCHANGED <<ar, env, ret, sbpRet, calls, w, hreq, ctx, proxyRet, resp, aresp, shape>>

\* Flush, Result, NewAdapterResponse and the return (lines 130 to 138)
ProxyRespond ==
    /\ pc = "reading"
    /\ w' = [RecorderFlush(w) EXCEPT !.read = TRUE]
    /\ proxyRet' = [kind |-> "returned"] @@ ProxyResult(w)
    /\ pc' = "idle"
    /\ UNCHANGED <<ar, env, ret, sbpRet, calls, ch, hreq, ctx, resp, aresp, shape>>

\* The invocation context is cancelled
Cancel ==
    /\ ~ctx.cancelled
    /\ ctx' = [ctx EXCEPT !.cancelled = TRUE]
    /\ UNCHANGED <<ar, env, ret, sbpRet, calls, pc, ch, w, hreq, proxyRet, resp, aresp, shape>>

ProxyNext ==
    \/ ProxyCall
    \/ HandlerSetHeader
    \/ HandlerWriteHeader
    \/ HandlerWrite
    \/ HandlerReturn
    \/ HandlerPanic
    \/ WrapperDone
    \/ ProxyReceive
    \/ ProxyRespond
    \/ Cancel

ProxySpec == ProxyInit /\ [][ProxyNext]_vars

\* The goroutine that runs Proxy keeps running its own statements; nothing
\* makes a handler return
ProxyFairSpec ==
    /\ ProxySpec
    /\ WF_vars(WrapperDone)
    /\ WF_vars(ProxyReceive)
    /\ WF_vars(ProxyRespond)

(***************************************************************************)
(* Properties of ToRequest and StripBasePath, checked under Spec.          *)
(***************************************************************************)
\* The ways the query of event a may be written after the path: every order
\* of its (key, value) pairs
QuerySuffixes(a) ==
    IF Cardinality(DOMAIN a.MultiValueQueryStringParameters) > 0
    THEN { <<63>> \o MultiQueryString(<<>>, a.MultiValueQueryStringParameters, o) :
             o \in Orders(a.MultiValueQueryStringParameters) }
    ELSE IF Cardinality(DOMAIN a.QueryStringParameters) > 0
    THEN { <<63>> \o SingleQueryString(<<>>, a.QueryStringParameters, o) :
             o \in Orders(a.QueryStringParameters) }
    ELSE { <<>> }

\* C1: the URL of every request ToRequest builds is the base host (GO_API_HOST
\* when set, else the default address), then the event path with the base
\* path stripped once and a leading '/' ensured, then the query string.
C1_RequestURL ==
    [][(calls' = calls + 1 /\ ret'.kind = "request")
        => \E q \in QuerySuffixes(ar) : ret'.URL = LocalPath(ar, env) \o q]_vars

\* The (key, value) pairs of a multi-value map, one per value of each key
MultiPairs(m) == UNION { { <<k, i>> : i \in 1..Len(m[k]) } : k \in DOMAIN m }

RECURSIVE JoinAmp(_)
JoinAmp(ps) ==
    IF ps = <<>> THEN <<>>
    ELSE IF Len(ps) = 1 THEN Head(ps)
    ELSE Head(ps) \o <<38>> \o JoinAmp(Tail(ps))

\* Every way of writing one escaped key=value per element of the set pairs,
\* joined with '&'; key(p) and val(p) give the texts of pair p
JoinedPairs(pairs, key(_), val(_)) ==
    LET n == Cardinality(pairs)
    IN  { JoinAmp([i \in 1..n |-> QueryEscape(key(o[i])) \o <<61>> \o QueryEscape(val(o[i]))]) :
            o \in {f \in [1..n -> pairs] : \A i, j \in 1..n : f[i] = f[j] => i = j} }

\* C6: the query of the request is one escaped key=value per (key, value) of
\* the multi-value map joined with '&' when that map is non-empty, else the
\* same for the single-value map when it is non-empty, else the URL has no '?'.
C6_Query ==
    ret.kind = "request" =>
        LET mv == ar.MultiValueQueryStringParameters
            sv == ar.QueryStringParameters
        IN  IF DOMAIN mv # {}
            THEN RawQuery(ret.URL) \in
                    JoinedPairs(MultiPairs(mv), LAMBDA p : p[1], LAMBDA p : mv[p[1]][p[2]])
            ELSE IF DOMAIN sv # {}
            THEN RawQuery(ret.URL) \in JoinedPairs(DOMAIN sv, LAMBDA k : k, LAMBDA k : sv[k])
            ELSE Index(ret.URL, <<63>>) = 0

\* The same statement for the first translation of an event only
C6_QueryFirstCall == calls <= 1 => C6_Query

\* The base64 texts among the bodies and the bytes each stands for:
\* "" -> "", "aGk=" -> "hi", "/+8=" -> ff ef, "aG\nk=" -> "hi"
KnownBase64 ==
    (<<>> :> <<>>)
    @@ (<<97, 71, 107, 61>> :> <<104, 105>>)
    @@ (<<47, 43, 56, 61>> :> <<255, 239>>)
    @@ (<<97, 71, 10, 107, 61>> :> <<104, 105>>)

\* C5: without the base64 flag the request body is the event's body text; with
\* it and a valid base64 body the request body is the decoded bytes; with it
\* and an invalid body ToRequest returns an error and no request.
C5_BodyDecoding ==
    ret.kind # "none" =>
        /\ (~ar.IsBase64Encoded /\ ret.kind = "request") => ret.Body = ar.Body
        /\ (ar.IsBase64Encoded /\ ar.Body \in DOMAIN KnownBase64 /\ ret.kind = "request")
              => /\ ret.Body = KnownBase64[ar.Body]
                 /\ B64Encode(ret.Body) = SelectSeq(ar.Body, IsNotNewline)
        /\ (ar.IsBase64Encoded /\ ar.Body \notin DOMAIN KnownBase64) => ret.kind = "error"

\* A request whose body was decoded from "/+8=" to the bytes ff ef
C5_Witness ==
    /\ ret.kind = "request"
    /\ ar.IsBase64Encoded
    /\ ar.Body = <<47, 43, 56, 61>>
    /\ ret.Body = <<255, 239>>

\* The fields of the event: every field but the base-path override
EventFields(a) == [a EXCEPT !.stripBasePath = <<>>]

\* C9: no ToRequest (or Proxy) call changes a field of the event.
C9_EventUnchanged == [][EventFields(ar') = EventFields(ar)]_vars

\* C10: the stored base path is the value the last StripBasePath call
\* returned, it is empty or starts with '/' and does not end with '/', and
\* StripBasePath of it returns it.
C10_Normalised ==
    /\ ar.stripBasePath = sbpRet.value
    /\ sbpRet.value = <<>>
         \/ (HasPrefix(sbpRet.value, <<47>>) /\ ~HasSuffix(sbpRet.value, <<47>>))
    /\ StripBasePath(sbpRet.value) = sbpRet.value

\* C10 as amended: the stored base path is the value the last call returned
\* and is empty or starts with '/'; it ends with '/' only when the argument
\* ended with "//", and StripBasePath of a value that does not end with '/'
\* returns that value.
C10_Amended ==
    /\ ar.stripBasePath = sbpRet.value
    /\ sbpRet.value = <<>> \/ HasPrefix(sbpRet.value, <<47>>)
    /\ HasSuffix(sbpRet.value, <<47>>) => HasSuffix(sbpRet.arg, <<47, 47>>)
    /\ ~HasSuffix(sbpRet.value, <<47>>) => StripBasePath(sbpRet.value) = sbpRet.value

\* StripBasePath("base//") stored "/base/"
C10_Witness ==
    /\ sbpRet.arg = <<98, 97, 115, 101, 47, 47>>
    /\ sbpRet.value = <<47, 98, 97, 115, 101, 47>>
    /\ ar.stripBasePath = <<47, 98, 97, 115, 101, 47>>

(***************************************************************************)
(* Properties of the response translator, checked under ResponseSpec.      *)
(***************************************************************************)
\* C7: a body of valid UTF-8 is returned as it is with isBase64Encoded false;
\* any other body is returned base64-encoded with the flag set, and decoding
\* it gives the bytes back; no header takes part in the decision.  Status 200
\* with "Hello World!" gives 200, "Hello World!", false.
C7_EncodingRoundTrip ==
    (aresp.kind = "returned" /\ aresp.err = Nil) =>
        LET a == aresp.resp[1]
        IN  /\ Utf8Valid(resp.Body) => (~a.IsBase64Encoded /\ a.Body = resp.Body)
            /\ ~Utf8Valid(resp.Body)
                 => /\ a.IsBase64Encoded
                    /\ B64Decode(a.Body) = [ok |-> TRUE, bytes |-> resp.Body]
            /\ (resp.Body = HelloWorld /\ resp.StatusCode = 200)
                 => /\ a.StatusCode = 200
                    /\ a.Body = HelloWorld
                    /\ ~a.IsBase64Encoded
            /\ resp.Body = <<255>> => a.Body = <<47, 119, 61, 61>>

\* A text body declared image/png comes back as text, and so does U+20AC
C7_Witness ==
    /\ aresp.kind = "returned"
    /\ aresp.err = Nil
    /\ ContentType \in DOMAIN resp.Header
    /\ resp.Header[ContentType][1] = <<105, 109, 97, 103, 101, 47, 112, 110, 103>>
    /\ resp.Body = <<226, 130, 172>>
    /\ aresp.resp[1].Body = <<226, 130, 172>>
    /\ ~aresp.resp[1].IsBase64Encoded

\* C8: the AdapterResponse and both shapes cast from it have an empty
\* single-value header map and the response's headers as multi-value map; the
\* shapes carry its status code, body and flag, the load-balancer shape being
\* a copy of every field.
C8_HeadersAndShapes ==
    (aresp.kind = "returned" /\ aresp.err = Nil) =>
        LET a == aresp.resp[1]
        IN  /\ a.Headers = EmptyMap
            /\ a.MultiValueHeaders = resp.Header
            /\ a.StatusCode = resp.StatusCode
            /\ shape.kind \in {"apigw", "alb"} =>
                 /\ shape.value.Headers = EmptyMap
                 /\ shape.value.MultiValueHeaders = resp.Header
                 /\ shape.value.StatusCode = a.StatusCode
                 /\ shape.value.Body = a.Body
                 /\ shape.value.IsBase64Encoded = a.IsBase64Encoded
            /\ shape.kind = "apigw" =>
                 DOMAIN shape.value =
                    {"StatusCode", "Headers", "MultiValueHeaders", "Body", "IsBase64Encoded"}
            /\ shape.kind = "alb" => shape.value = a

\* A load-balancer shape cast from a response with two header keys
C8_Witness ==
    /\ shape.kind = "alb"
    /\ Cardinality(DOMAIN resp.Header) = 2
    /\ shape.value.MultiValueHeaders = resp.Header
    /\ shape.value.Headers = EmptyMap

(***************************************************************************)
(* Properties of Proxy, checked under ProxySpec and ProxyFairSpec.         *)
(***************************************************************************)
\* C2: in every Proxy invocation the completion channel is closed once, and
\* only when h.ServeHTTP is no longer running; the recorder is read only after
\* the close has been received; it is never read while the handler runs.
C2_SignalOrder ==
    /\ ch.closes <= 1
    /\ ch.received <= 1
    /\ pc = "serving" => (ch.closes = 0 /\ ~w.read)
    /\ ch.received = 1 => ch.closes = 1
    /\ pc = "reading" => ch.received = 1
    /\ w.read => (ch.received = 1 /\ pc = "idle")
    /\ (pc = "idle" /\ w.made) => (ch.closes = 1 /\ ch.received = 1 /\ w.read)

\* A finished invocation: the body written by the handler was read after one
\* close and one receive
C2_Witness ==
    /\ pc = "idle"
    /\ w.read
    /\ w.Body = HelloWorld
    /\ ch.closes = 1
    /\ ch.received = 1

\* C3: when h.ServeHTTP returns, Proxy returns; while the handler runs Proxy
\* goes nowhere but through the handler's return or panic, so a handler that
\* never returns keeps Proxy from returning; a cancellation of the context
\* moves neither Proxy nor its result.
C3_TerminatesWithHandler ==
    /\ (pc = "returning") ~> (pc = "idle" /\ proxyRet.kind = "returned")
    /\ [][pc = "serving" => pc' \in {"serving", "returning", "panicking"}]_vars
    /\ [][(pc = "serving" /\ pc' = "serving") => proxyRet' = NoResult]_vars
    /\ [][ctx' # ctx => (pc' = pc /\ proxyRet' = proxyRet /\ ch' = ch)]_vars

\* The context is cancelled while the handler runs, and Proxy is still in it
C3_Witness ==
    /\ pc = "serving"
    /\ ctx.cancelled
    /\ hreq.Ctx = "invocation"
    /\ proxyRet = NoResult

\* C4: Proxy returns a response and no error, or an error and no response;
\* a returned response holds all the handler wrote; when ToRequest fails the
\* error is returned and the handler is not invoked.
C4_AllOrNothing ==
    /\ proxyRet.kind = "returned" => ((proxyRet.resp = Nil) # (proxyRet.err = Nil))
    /\ (proxyRet.kind = "returned" /\ proxyRet.err = Nil) =>
          LET a == proxyRet.resp[1]
          IN  /\ pc = "idle"
              /\ w.read
              /\ a.StatusCode = w.Code
              /\ a.MultiValueHeaders = w.snapHeader
              /\ (IF a.IsBase64Encoded THEN B64Decode(a.Body).bytes ELSE a.Body) = w.Body
    /\ ret.kind = "error" =>
          /\ pc = "idle"
          /\ proxyRet.kind = "returned"
          /\ proxyRet.resp = Nil
          /\ proxyRet.err # Nil
          /\ hreq.kind = "none"
          /\ ~w.made

\* The event flagged base64 with the body "aGk": an error and no handler call
C4_Witness ==
    /\ ar.IsBase64Encoded
    /\ ar.Body = <<97, 71, 107>>
    /\ ret.kind = "error"
    /\ proxyRet.kind = "returned"
    /\ proxyRet.resp = Nil
    /\ proxyRet.err # Nil
    /\ hreq.kind = "none"

====
